---- MODULE Spec2Model ----
(***************************************************************************)
(* A model of the goldbach-primorials tools:                               *)
(*   goldbach_count.py            sieve, first k primes, primorial,        *)
(*                                exact Goldbach count, compute_table      *)
(*   lpf_symmetry_verification.py lpf, verify_lpf_symmetry                 *)
(*   amplification_testing.py     count_goldbach_representations,          *)
(*                                test_primorial_amplification             *)
(*                                                                         *)
(* One call is modelled at a time.  `fn` names the function that was       *)
(* called, `pc` is its position ("loop" inside its loop, "return" after a  *)
(* normal return, "raise" after an exception left it) and `ret` is its     *)
(* outcome.  The loops of count_goldbach_representations,                  *)
(* verify_lpf_symmetry and compute_table advance one iteration per step.   *)
(***************************************************************************)
EXTENDS Integers, Sequences, FiniteSets

VARIABLES fn, pc, ret,
          n,                                   \* argument of sieve_is_prime / lpf
          N, p_start, p_end, max_primes,       \* count_goldbach_representations
          p, count, tested,
          k, x, left_lpfs, right_lpfs,         \* first_k_primes / verify_lpf_symmetry
          k_values, maxN, ps, rows, pos,       \* compute_table
          bound                                \* the loop of first_k_primes

vars == <<fn, pc, ret, n, N, p_start, p_end, max_primes, p, count, tested,
          k, x, left_lpfs, right_lpfs, k_values, maxN, ps, rows, pos, bound>>

(***************************************************************************)
(* Bounds of the explored inputs.                                          *)
(***************************************************************************)
SieveMax == 31       \* sieve_is_prime(n) is called for n in 0..SieveMax
GoldbachMax == 31    \* goldbach_count(N, .) is called for N in 0..GoldbachMax
KMax == 8            \* first_k_primes(k) is called for k in 0..KMax
LpfBelow == 3        \* lpf(n) is called for n in -LpfBelow..LpfMax
LpfMax == 40
SampleNMax == 13     \* sampling mode: N in 0..SampleNMax
SampleRangeMax == 8  \* sampling mode: p_start, p_end in 0..SampleRangeMax
SampleCapMax == 2    \* sampling mode: max_primes in None, 0..SampleCapMax
AmpKMax == 3         \* test_primorial_amplification(k, ..) for k in 1..AmpKMax
AmpSamplesMax == 6   \* num_samples in 1..AmpSamplesMax
LambdaMax == 5       \* lambda_factor in 1..LambdaMax
SymKMax == 3         \* verify_lpf_symmetry(k) for k in 3..SymKMax
TableKBelow == 1     \* compute_table: k values in -TableKBelow..TableKMax
TableKMax == 3
BatchMax == 2        \* compute_table: at most BatchMax k values

(***************************************************************************)
(* Python values.                                                          *)
(***************************************************************************)
None == [tag |-> "None"]
\* the outcome of a call: the function called and what it returned or raised
Return(f, v) == [tag |-> "return", of |-> f, val |-> v]
Raise(e) == [tag |-> "raise", val |-> e]
PyInt(v) == [tag |-> "int", val |-> v]

Truthy(v) == v # None /\ v.val # 0
Min(S) == CHOOSE a \in S : \A b \in S : a <= b
Max(S) == CHOOSE a \in S : \A b \in S : a >= b

(***************************************************************************)
(* math.isqrt                                                              *)
(***************************************************************************)
isqrt(m) == CHOOSE r \in 0..m : r * r <= m /\ (r + 1) * (r + 1) > m

(***************************************************************************)
(* sympy: isprime, nextprime, factorint (the keys of its result), prime,   *)
(* primorial.                                                              *)
(***************************************************************************)
isprime(m) == m >= 2 /\ \A d \in 2..isqrt(IF m >= 2 THEN m ELSE 0) : m % d # 0

nextprime(m) == IF m < 2 THEN 2 ELSE CHOOSE q \in (m + 1)..(2 * m) :
                    isprime(q) /\ \A r \in (m + 1)..(q - 1) : ~isprime(r)

factorint_keys(m) == {q \in 2..m : isprime(q) /\ m % q = 0}

RECURSIVE prime(_)
prime(j) == IF j = 1 THEN 2 ELSE nextprime(prime(j - 1))

RECURSIVE primorial(_)
primorial(j) == IF j = 1 THEN 2 ELSE prime(j) * primorial(j - 1)

(***************************************************************************)
(* goldbach_count.py                                                       *)
(***************************************************************************)
\* lines 37-42: the loop over the odd candidates q = 3, 5, .. <= limit
RECURSIVE SieveOdd(_, _, _, _)
SieveOdd(is_prime, q, limit, m) ==
    IF q > limit THEN is_prime
    ELSE SieveOdd(IF is_prime[q] = 1
                  THEN [i \in 0..m |-> IF i >= q * q /\ (i - q * q) % q = 0
                                       THEN 0 ELSE is_prime[i]]
                  ELSE is_prime,
                  q + 2, limit, m)

\* line 43: is_prime[2] = 1 if n >= 2 else 0, an index error on a table
\* that has no index 2
SetTwo(is_prime, m) ==
    IF 2 \in DOMAIN is_prime
    THEN Return("sieve_is_prime", [is_prime EXCEPT ![2] = IF m >= 2 THEN 1 ELSE 0])
    ELSE Raise("IndexError")

sieve_is_prime(m) ==
    IF m < 1 THEN Return("sieve_is_prime", [i \in 0..m |-> 0])
    ELSE LET ones  == [i \in 0..m |-> IF i < 2 THEN 0 ELSE 1]
             evens == [i \in 0..m |-> IF i >= 4 /\ i % 2 = 0 THEN 0 ELSE ones[i]]
         IN  SetTwo(SieveOdd(evens, 3, isqrt(m), m), m)

\* line 53: [i for i in range(lo, hi + 1, 2) if is_prime[i]]
RECURSIVE OddsWhere(_, _, _)
OddsWhere(is_prime, lo, hi) ==
    IF lo > hi THEN <<>>
    ELSE (IF is_prime[lo] = 1 THEN <<lo>> ELSE <<>>) \o OddsWhere(is_prime, lo + 2, hi)

primes_up_to(m, is_prime) ==
    IF m < 2 THEN <<>> ELSE <<2>> \o OddsWhere(is_prime, 3, m)

\* line 64: int(k * (log k + log log k)) + 10, tabulated for 6 <= k <= 12
BoundEstimate(j) ==
    CASE j = 6 -> 24 [] j = 7 -> 28 [] j = 8 -> 32 [] j = 9 -> 36
      [] j = 10 -> 41 [] j = 11 -> 45 [] j = 12 -> 50

\* ps[:j] of Python, for any integer j
Prefix(s, j) ==
    IF j >= 0 THEN SubSeq(s, 1, IF j < Len(s) THEN j ELSE Len(s))
    ELSE SubSeq(s, 1, IF Len(s) + j > 0 THEN Len(s) + j ELSE 0)

\* lines 66-71: re-sieve with a doubled bound until k primes are found
RECURSIVE FirstKLoop(_, _)
FirstKLoop(j, b) ==
    LET found == primes_up_to(b, sieve_is_prime(b).val)
    IN  IF Len(found) >= j THEN Prefix(found, j) ELSE FirstKLoop(j, b * 2)

first_k_primes(j) ==
    IF j <= 0 THEN <<>>
    ELSE FirstKLoop(j, IF j < 6 THEN 15 ELSE BoundEstimate(j))

\* n += p in place of n *= p
RECURSIVE primorial_from_primes_sum(_)
primorial_from_primes_sum(s) ==
    IF s = <<>> THEN 1
    ELSE primorial_from_primes_sum(SubSeq(s, 1, Len(s) - 1)) + s[Len(s)]

RECURSIVE primorial_from_primes(_)
primorial_from_primes(s) ==
    IF s = <<>> THEN 1
    ELSE primorial_from_primes(SubSeq(s, 1, Len(s) - 1)) * s[Len(s)]

\* lines 90-92: the loop over odd q = 3, 5, .. <= half
RECURSIVE CountOdd(_, _, _, _)
CountOdd(M, is_prime, q, half) ==
    IF q > half THEN 0
    ELSE (IF is_prime[q] = 1 /\ is_prime[M - q] = 1 THEN 1 ELSE 0)
         + CountOdd(M, is_prime, q + 2, half)

\* the separate handling of p = 2 left out
goldbach_count_odd_only(M, is_prime) ==
    IF M < 4 \/ M % 2 = 1 THEN Return("goldbach_count", 0)
    ELSE Return("goldbach_count", CountOdd(M, is_prime, 3, M \div 2))

goldbach_count(M, is_prime) ==
    IF M < 4 \/ M % 2 = 1 THEN Return("goldbach_count", 0)
    ELSE LET half == M \div 2
         IN  Return("goldbach_count", (IF half >= 2 /\ is_prime[2] = 1 /\ is_prime[M - 2] = 1
                     THEN 1 ELSE 0)
                    + CountOdd(M, is_prime, 3, half))

(***************************************************************************)
(* lpf_symmetry_verification.py                                            *)
(***************************************************************************)
\* max(factors.keys()) in place of min
lpf_max(m) ==
    IF m <= 1 THEN None
    ELSE IF isprime(m) THEN PyInt(m)
    ELSE PyInt(Max(factorint_keys(m)))

\* a sentinel 1 returned for n <= 1
lpf_sentinel(m) ==
    IF m <= 1 THEN PyInt(1)
    ELSE IF isprime(m) THEN PyInt(m)
    ELSE PyInt(Min(factorint_keys(m)))

lpf(m) ==
    IF m <= 1 THEN None
    ELSE IF isprime(m) THEN PyInt(m)
    ELSE PyInt(Min(factorint_keys(m)))

(***************************************************************************)
(* The state before any call.                                              *)
(***************************************************************************)
Init ==
    /\ fn = "none" /\ pc = "idle" /\ ret = None
    /\ n = 0
    /\ N = 0 /\ p_start = 0 /\ p_end = 0 /\ max_primes = None
    /\ p = 0 /\ count = 0 /\ tested = 0
    /\ k = 0 /\ x = 0 /\ left_lpfs = <<>> /\ right_lpfs = <<>>
    /\ k_values = <<>> /\ maxN = None /\ ps = <<>> /\ rows = <<>> /\ pos = 0
    /\ bound = 0

Idle == pc = "idle"

\* sieve_is_prime(n)
Sieve ==
    /\ Idle
    /\ \E m \in 0..SieveMax :
          /\ n' = m
          /\ ret' = sieve_is_prime(m)
    /\ fn' = "sieve_is_prime"
    /\ pc' = ret'.tag
    /\ UNCHANGED <<N, p_start, p_end, max_primes, p, count, tested,
                   k, x, left_lpfs, right_lpfs, k_values, maxN, ps, rows, pos,
                   bound>>

\* goldbach_count(N, is_prime) on a table over 0..N: sieve_is_prime(N), or
\* the all-false table where N < 2
TableFor(M) == IF M >= 2 THEN sieve_is_prime(M).val ELSE [i \in 0..M |-> 0]

GoldbachCount ==
    /\ Idle
    /\ \E M \in 0..GoldbachMax :
          /\ N' = M
          /\ ret' = goldbach_count(M, TableFor(M))
    /\ fn' = "goldbach_count"
    /\ pc' = ret'.tag
    /\ UNCHANGED <<n, p_start, p_end, max_primes, p, count, tested,
                   k, x, left_lpfs, right_lpfs, k_values, maxN, ps, rows, pos,
                   bound>>

\* first_k_primes(k)
FirstKPrimes ==
    /\ Idle
    /\ \E j \in 0..KMax :
          /\ k' = j
          /\ ret' = Return("first_k_primes", first_k_primes(j))
    /\ fn' = "first_k_primes"
    /\ pc' = "return"
    /\ UNCHANGED <<n, N, p_start, p_end, max_primes, p, count, tested,
                   x, left_lpfs, right_lpfs, k_values, maxN, ps, rows, pos,
                   bound>>

\* line 62 skipped: bound is still 0 when the loop starts
InitialBound_unset(j) == IF j < 6 THEN 0 ELSE BoundEstimate(j)

\* lines 61-64: the first sieve bound
InitialBound(j) == IF j < 6 THEN 15 ELSE BoundEstimate(j)

\* first_k_primes(k), one iteration of its loop per step; lines 58-64
FirstKEnter ==
    /\ Idle
    /\ \E j \in 0..KMax :
          /\ k' = j
          /\ IF j <= 0
             THEN /\ pc' = "return" /\ ret' = Return("first_k_primes", <<>>)
                  /\ UNCHANGED bound
             ELSE /\ pc' = "loop" /\ ret' = None
                  /\ bound' = InitialBound(j)
    /\ fn' = "first_k_primes"
    /\ UNCHANGED <<n, N, p_start, p_end, max_primes, p, count, tested,
                   x, left_lpfs, right_lpfs, k_values, maxN, ps, rows, pos>>

\* lines 66-71: sieve up to bound; return the first k primes or double bound
FirstKIterate ==
    /\ fn = "first_k_primes" /\ pc = "loop"
    /\ LET found == primes_up_to(bound, sieve_is_prime(bound).val)
       IN  IF Len(found) >= k
           THEN /\ pc' = "return" /\ ret' = Return("first_k_primes", Prefix(found, k))
                /\ UNCHANGED bound
           ELSE /\ bound' = bound * 2
                /\ UNCHANGED <<pc, ret>>
    /\ UNCHANGED <<fn, n, N, p_start, p_end, max_primes, p, count, tested,
                   k, x, left_lpfs, right_lpfs, k_values, maxN, ps, rows, pos>>

\* primorial_from_primes(first_k_primes(k))
Primorial ==
    /\ Idle
    /\ \E j \in 0..KMax :
          /\ k' = j
          /\ ps' = first_k_primes(j)
          /\ ret' = Return("primorial_from_primes", primorial_from_primes(first_k_primes(j)))
    /\ fn' = "primorial_from_primes"
    /\ pc' = "return"
    /\ UNCHANGED <<n, N, p_start, p_end, max_primes, p, count, tested,
                   x, left_lpfs, right_lpfs, k_values, maxN, rows, pos,
                   bound>>

\* lpf(n)
Lpf ==
    /\ Idle
    /\ \E m \in (-LpfBelow)..LpfMax :
          /\ n' = m
          /\ ret' = Return("lpf", lpf(m))
    /\ fn' = "lpf"
    /\ pc' = "return"
    /\ UNCHANGED <<N, p_start, p_end, max_primes, p, count, tested,
                   k, x, left_lpfs, right_lpfs, k_values, maxN, ps, rows, pos,
                   bound>>

(***************************************************************************)
(* amplification_testing.py: count_goldbach_representations                *)
(***************************************************************************)
\* the call, lines 53-59
EnterCount(M, a, b, cap) ==
    /\ fn' = "count_goldbach_representations"
    /\ N' = M /\ p_start' = a /\ p_end' = b /\ max_primes' = cap
    /\ IF M % 2 # 0
       THEN /\ pc' = "raise" /\ ret' = Raise("ValueError")
            /\ UNCHANGED <<p, count, tested>>
       ELSE /\ pc' = "loop" /\ ret' = None
            /\ p' = a /\ count' = 0 /\ tested' = 0
    /\ UNCHANGED <<n, k, x, left_lpfs, right_lpfs, k_values, maxN, ps, rows, pos,
                   bound>>

CountCall ==
    /\ Idle
    /\ \E M \in 0..SampleNMax, a \in 0..SampleRangeMax, b \in 0..SampleRangeMax,
          cap \in {None} \cup {PyInt(c) : c \in 0..SampleCapMax} :
          EnterCount(M, a, b, cap)

\* test_primorial_amplification(k, num_samples, lambda_factor), lines 138-152
TestPrimorialAmplification ==
    /\ Idle
    /\ \E j \in 1..AmpKMax, num_samples \in 1..AmpSamplesMax,
          lambda_factor \in 1..LambdaMax :
          EnterCount(primorial(j), prime(j + 1), lambda_factor * prime(j + 1),
                     PyInt(num_samples))

InCount == fn = "count_goldbach_representations" /\ pc = "loop"

\* lines 66-67, with or in place of and
IsRepresentation_or(M, a) == M - a > 0 \/ isprime(M - a)

\* lines 66-67: q = N - p; q > 0 and isprime(q)
IsRepresentation(M, a) == M - a > 0 /\ isprime(M - a)

\* lines 61-63: p is not prime, move to the next prime
CountSkip ==
    /\ InCount /\ p <= p_end /\ ~isprime(p)
    /\ p' = nextprime(p)
    /\ UNCHANGED <<fn, pc, ret, n, N, p_start, p_end, max_primes, count, tested,
                   k, x, left_lpfs, right_lpfs, k_values, maxN, ps, rows, pos,
                   bound>>

\* the cap tested with > in place of >=
CountTest_late ==
    /\ InCount /\ p <= p_end /\ isprime(p)
    /\ count' = IF IsRepresentation(N, p) THEN count + 1 ELSE count
    /\ tested' = tested + 1
    /\ IF Truthy(max_primes) /\ tested' > max_primes.val
       THEN /\ pc' = "return" /\ ret' = Return("count_goldbach_representations",
                                            <<count', tested'>>)
            /\ p' = p
       ELSE /\ p' = nextprime(p)
            /\ UNCHANGED <<pc, ret>>
    /\ UNCHANGED <<fn, n, N, p_start, p_end, max_primes,
                   k, x, left_lpfs, right_lpfs, k_values, maxN, ps, rows, pos,
                   bound>>

\* lines 65-78: p is prime and is tested; the cap ends the loop
CountTest ==
    /\ InCount /\ p <= p_end /\ isprime(p)
    /\ count' = IF IsRepresentation(N, p) THEN count + 1 ELSE count
    /\ tested' = tested + 1
    /\ IF Truthy(max_primes) /\ tested' >= max_primes.val
       THEN /\ pc' = "return" /\ ret' = Return("count_goldbach_representations",
                                            <<count', tested'>>)
            /\ p' = p
       ELSE /\ p' = nextprime(p)
            /\ UNCHANGED <<pc, ret>>
    /\ UNCHANGED <<fn, n, N, p_start, p_end, max_primes,
                   k, x, left_lpfs, right_lpfs, k_values, maxN, ps, rows, pos,
                   bound>>

\* lines 60, 80: the range is exhausted
CountReturn ==
    /\ InCount /\ ~(p <= p_end)
    /\ pc' = "return" /\ ret' = Return("count_goldbach_representations", <<count, tested>>)
    /\ UNCHANGED <<fn, n, N, p_start, p_end, max_primes, p, count, tested,
                   k, x, left_lpfs, right_lpfs, k_values, maxN, ps, rows, pos,
                   bound>>

(***************************************************************************)
(* lpf_symmetry_verification.py: verify_lpf_symmetry                       *)
(***************************************************************************)
\* collections.Counter of a list, and the sum of its values
Counter(s) == [v \in {s[j] : j \in DOMAIN s} |->
                  Cardinality({j \in DOMAIN s : s[j] = v})]

RECURSIVE SumOver(_, _)
SumOver(c, keys) ==
    IF keys = {} THEN 0
    ELSE LET v == CHOOSE w \in keys : TRUE IN c[v] + SumOver(c, keys \ {v})

SumValues(c) == SumOver(c, DOMAIN c)

\* line 163: total_left / total_right if total_right > 0 else 0, as a fraction
OverallRatio(total_left, total_right) ==
    IF total_right > 0 THEN [num |-> total_left, den |-> total_right]
    ELSE [num |-> 0, den |-> 1]

\* range(3, N//2 + 1) in place of range(3, N//2)
InScan_inclusive(M, a) == a <= M \div 2

\* line 99: x in range(3, N//2)
InScan(M, a) == a < M \div 2

\* lines 84-99: N = primorial(k), the scan starts at x = 3
VerifyCall ==
    /\ Idle
    /\ \E j \in 3..SymKMax :
          /\ k' = j
          /\ N' = primorial(j)
    /\ fn' = "verify_lpf_symmetry"
    /\ pc' = "loop"
    /\ x' = 3 /\ left_lpfs' = <<>> /\ right_lpfs' = <<>>
    /\ UNCHANGED <<ret, n, p_start, p_end, max_primes, p, count, tested,
                   k_values, maxN, ps, rows, pos,
                   bound>>

InVerify == fn = "verify_lpf_symmetry" /\ pc = "loop"

\* y = N - x - 1 in place of y = N - x
VerifyScan_shifted ==
    /\ InVerify /\ InScan(N, x)
    /\ left_lpfs' = Append(left_lpfs, lpf(x))
    /\ right_lpfs' = Append(right_lpfs, lpf(N - x - 1))
    /\ x' = x + 1
    /\ UNCHANGED <<fn, pc, ret, n, N, p_start, p_end, max_primes, p, count,
                   tested, k, k_values, maxN, ps, rows, pos,
                   bound>>

\* lines 99-106: one x of the scan
VerifyScan ==
    /\ InVerify /\ InScan(N, x)
    /\ left_lpfs' = Append(left_lpfs, lpf(x))
    /\ right_lpfs' = Append(right_lpfs, lpf(N - x))
    /\ x' = x + 1
    /\ UNCHANGED <<fn, pc, ret, n, N, p_start, p_end, max_primes, p, count,
                   tested, k, k_values, maxN, ps, rows, pos,
                   bound>>

\* lines 113-114, 161-163, 192-200: the tables, the totals and the ratio
VerifyReturn ==
    /\ InVerify /\ ~InScan(N, x)
    /\ LET left_counts  == Counter(left_lpfs)
           right_counts == Counter(right_lpfs)
           total_left   == SumValues(left_counts)
           total_right  == SumValues(right_counts)
       IN  ret' = Return("verify_lpf_symmetry", [k |-> k, N |-> N, pairs |-> total_left,
                          ratio |-> OverallRatio(total_left, total_right),
                          left_counts |-> left_counts,
                          right_counts |-> right_counts])
    /\ pc' = "return"
    /\ UNCHANGED <<fn, n, N, p_start, p_end, max_primes, p, count, tested,
                   k, x, left_lpfs, right_lpfs, k_values, maxN, ps, rows, pos,
                   bound>>

(***************************************************************************)
(* goldbach_count.py: compute_table                                        *)
(***************************************************************************)
RECURSIVE SeqsUpTo(_, _)
SeqsUpTo(S, len) ==
    IF len = 0 THEN {<<>>}
    ELSE LET shorter == SeqsUpTo(S, len - 1)
         IN  shorter \cup {Append(s, a) : s \in shorter, a \in S}

MaxNChoices == {None} \cup {PyInt(m) : m \in {5, 6, 29, 30}}

\* lines 102-105: kmax, the primes up to the kmax-th, no rows yet
ComputeTableCall ==
    /\ Idle
    /\ \E ks \in SeqsUpTo((-TableKBelow)..TableKMax, BatchMax) \ {<<>>},
          m \in MaxNChoices :
          /\ k_values' = ks
          /\ maxN' = m
          /\ ps' = first_k_primes(Max({ks[j] : j \in DOMAIN ks}))
    /\ fn' = "compute_table"
    /\ pc' = "loop"
    /\ rows' = <<>> /\ pos' = 1
    /\ UNCHANGED <<ret, n, N, p_start, p_end, max_primes, p, count, tested,
                   k, x, left_lpfs, right_lpfs,
                   bound>>

InTable == fn = "compute_table" /\ pc = "loop"

\* line 107: N for the k at position j of k_values
PrimorialAt(j) == primorial_from_primes(Prefix(ps, k_values[j]))

\* line 108
ExceedsMaxN(M) == maxN # None /\ M > maxN.val

\* lines 107-113: the row of one k is computed and appended
ComputeTableRow ==
    /\ InTable /\ pos <= Len(k_values)
    /\ ~ExceedsMaxN(PrimorialAt(pos))
    /\ LET M == PrimorialAt(pos)
           is_prime == sieve_is_prime(M)
       IN  /\ is_prime.tag = "return"
           /\ rows' = Append(rows, <<k_values[pos], M,
                                     goldbach_count(M, is_prime.val).val>>)
    /\ pos' = pos + 1
    /\ UNCHANGED <<fn, pc, ret, n, N, p_start, p_end, max_primes, p, count,
                   tested, k, x, left_lpfs, right_lpfs, k_values, maxN, ps,
                   bound>>

\* the k that fails is skipped and the loop goes on
ComputeTableRaise_skip ==
    /\ InTable /\ pos <= Len(k_values)
    /\ \/ ExceedsMaxN(PrimorialAt(pos))
       \/ sieve_is_prime(PrimorialAt(pos)).tag = "raise"
    /\ pos' = pos + 1
    /\ UNCHANGED <<fn, pc, ret, n, N, p_start, p_end, max_primes, p, count,
                   tested, k, x, left_lpfs, right_lpfs, k_values, maxN, ps, rows,
                   bound>>

\* lines 108-109, 111: the ValueError of the maxN limit, or the exception
\* of sieve_is_prime, leaves compute_table
ComputeTableRaise ==
    /\ InTable /\ pos <= Len(k_values)
    /\ \/ /\ ExceedsMaxN(PrimorialAt(pos))
          /\ ret' = Raise("ValueError")
       \/ /\ ~ExceedsMaxN(PrimorialAt(pos))
          /\ sieve_is_prime(PrimorialAt(pos)).tag = "raise"
          /\ ret' = sieve_is_prime(PrimorialAt(pos))
    /\ pc' = "raise"
    /\ UNCHANGED <<fn, n, N, p_start, p_end, max_primes, p, count, tested,
                   k, x, left_lpfs, right_lpfs, k_values, maxN, ps, rows, pos,
                   bound>>

\* line 114: every k had its row
ComputeTableReturn ==
    /\ InTable /\ pos > Len(k_values)
    /\ pc' = "return" /\ ret' = Return("compute_table", rows)
    /\ UNCHANGED <<fn, n, N, p_start, p_end, max_primes, p, count, tested,
                   k, x, left_lpfs, right_lpfs, k_values, maxN, ps, rows, pos,
                   bound>>

Next ==
    \/ Sieve
    \/ GoldbachCount
    \/ FirstKPrimes
    \/ FirstKEnter
    \/ FirstKIterate
    \/ Primorial
    \/ Lpf
    \/ CountCall
    \/ TestPrimorialAmplification
    \/ CountSkip
    \/ CountTest
    \/ CountReturn
    \/ VerifyCall
    \/ VerifyScan
    \/ VerifyReturn
    \/ ComputeTableCall
    \/ ComputeTableRow
    \/ ComputeTableRaise
    \/ ComputeTableReturn

Spec == Init /\ [][Next]_vars

\* a call that is inside the loop of first_k_primes goes on running
FairSpec == Spec /\ WF_vars(FirstKIterate)
(***************************************************************************)
(* Reference notions the properties are stated with.                       *)
(***************************************************************************)
IsPrimeRef(m) == m >= 2 /\ \A d \in 2..(m - 1) : m % d # 0
PrimesRef(lo, hi) == {q \in lo..hi : IsPrimeRef(q)}
Range(s) == {s[i] : i \in DOMAIN s}
RECURSIVE Product(_)
Product(S) == IF S = {} THEN 1 ELSE LET a == Max(S) IN a * Product(S \ {a})

(***************************************************************************)
(* C1: for every N in 0..SieveMax, sieve_is_prime(N) returns a table of    *)
(* exactly N+1 entries in which entry i is 1 if and only if i is prime;    *)
(* entries 0 and 1 are 0, entry 2 is 1 iff N >= 2, every even index > 2    *)
(* is 0, and for N = 30 the marked indices are {2,3,5,7,11,13,17,19,23,29}.*)
(***************************************************************************)
C1_SieveMarksExactlyPrimes ==
    fn = "sieve_is_prime" =>
        /\ ret.tag = "return"
        /\ DOMAIN ret.val = 0..n
        /\ \A i \in 0..n : (ret.val[i] = 1) <=> IsPrimeRef(i)
        /\ \A i \in 0..n : ret.val[i] \in {0, 1}
        /\ \A i \in 0..n : i < 2 => ret.val[i] = 0
        /\ n >= 2 => ret.val[2] = 1
        /\ \A i \in 0..n : (i > 2 /\ i % 2 = 0) => ret.val[i] = 0
        /\ n = 30 => {i \in 0..n : ret.val[i] = 1}
                        = {2, 3, 5, 7, 11, 13, 17, 19, 23, 29}

(***************************************************************************)
(* C2: for every even N >= 4, goldbach_count(N, sieve_is_prime(N)) is the  *)
(* number of primes p <= N/2 with N - p prime, each unordered pair counted *)
(* once; it is 1 for N = 4 and 3 for N = 30.                               *)
(***************************************************************************)
C2_ExactCountMatchesReference ==
    (fn = "goldbach_count" /\ N >= 4 /\ N % 2 = 0) =>
        /\ ret = Return("goldbach_count",
                        Cardinality({q \in PrimesRef(2, N \div 2) : IsPrimeRef(N - q)}))
        /\ N = 4 => ret.val = 1
        /\ N = 30 => ret.val = 3

C2_Witness ==
    fn = "goldbach_count" /\ N = 30 /\ pc = "return" /\ ret.val = 3

(***************************************************************************)
(* C3: goldbach_count called with N < 4 or with odd N fails with an        *)
(* InvalidInput error; it does not return a count for such N.              *)
(***************************************************************************)
C3_InvalidNIsRejected ==
    (fn = "goldbach_count" /\ (N < 4 \/ N % 2 = 1)) => ret.tag = "raise"

(***************************************************************************)
(* C4: for every k in 0..KMax, first_k_primes(k) is the list of the k      *)
(* smallest primes in strictly increasing order (empty for k = 0, last     *)
(* element 11 for k = 5), and primorial_from_primes of it is their         *)
(* product: 1 for k = 0, 2310 for k = 5, 9699690 for k = 8, even for       *)
(* every k >= 1 and strictly increasing in k.                              *)
(***************************************************************************)
C4_FirstPrimesAndPrimorial ==
    /\ (fn = "first_k_primes" /\ pc = "return") =>
          LET l == ret.val IN
          /\ Len(l) = k
          /\ \A i \in 1..(k - 1) : l[i] < l[i + 1]
          /\ k >= 1 => Range(l) = PrimesRef(2, l[k])
          /\ k = 0 => l = <<>>
          /\ k = 5 => l[5] = 11
    /\ fn = "primorial_from_primes" =>
          /\ ret.val = Product(Range(ps))
          /\ k = 0 => ret.val = 1
          /\ k = 5 => ret.val = 2310
          /\ k = 8 => ret.val = 9699690
          /\ k >= 1 => /\ ret.val % 2 = 0
                       /\ ret.val > primorial_from_primes(first_k_primes(k - 1))

C4_Witness ==
    fn = "primorial_from_primes" /\ k = 8 /\ Len(ps) = 8 /\ ret.val = 9699690

(***************************************************************************)
(* C5: for every n >= 2, lpf(n) is the smallest prime divisor of n:        *)
(* lpf(p) = p for every prime p, and for composite n the result is a prime *)
(* that divides n and is <= every other prime factor of n.                 *)
(***************************************************************************)
C5_LpfIsSmallestPrimeDivisor ==
    (fn = "lpf" /\ n >= 2) =>
        /\ ret.val.tag = "int"
        /\ LET q == ret.val.val IN
           /\ IsPrimeRef(q)
           /\ n % q = 0
           /\ \A r \in PrimesRef(2, n) : n % r = 0 => q <= r
           /\ IsPrimeRef(n) => q = n

C5_Witness ==
    fn = "lpf" /\ n = 35 /\ ret.val = PyInt(5)

(***************************************************************************)
(* C6: for every n <= 1 (1, 0 and negative n), lpf(n) signals that the     *)
(* result is absent: it returns None, never an integer.                    *)
(***************************************************************************)
C6_LpfAbsentBelowTwo ==
    (fn = "lpf" /\ n <= 1) => (ret = Return("lpf", None) /\ ret.val.tag # "int")

C6_Witness ==
    fn = "lpf" /\ n = -1 /\ ret.val = None
(***************************************************************************)
(* C7: in sampling mode, for every even N, every range and every           *)
(* non-negative integer max_primes, the returned pair (count, tested)      *)
(* satisfies 0 <= count <= tested <= max_primes, and count <= tested at    *)
(* every iteration of the loop.                                            *)
(***************************************************************************)
C7_SampleCountsBounded ==
    (fn = "count_goldbach_representations" /\ pc \in {"loop", "return"}
        /\ max_primes # None /\ max_primes.val >= 0) =>
        /\ 0 <= count /\ count <= tested
        /\ tested <= max_primes.val
        /\ pc = "return" => ret = Return("count_goldbach_representations", <<count, tested>>)

C9_ScanLengthAndRatio ==
    /\ (fn = "verify_lpf_symmetry" /\ pc = "loop") =>
          /\ Len(left_lpfs) = x - 3 /\ Len(right_lpfs) = x - 3
          /\ x <= N \div 2
    /\ (fn = "verify_lpf_symmetry" /\ pc = "return") =>
          /\ N = Product(PrimesRef(2, prime(k)))
          /\ SumValues(ret.val.left_counts) = N \div 2 - 3
          /\ SumValues(ret.val.right_counts) = N \div 2 - 3
          /\ N = 30 => ret.val.pairs = 12
          /\ ret.val.ratio.den > 0
          /\ ret.val.ratio = [num |-> N \div 2 - 3, den |-> N \div 2 - 3]

C9_Witness ==
    /\ fn = "verify_lpf_symmetry" /\ pc = "return" /\ k = 3 /\ N = 30
    /\ x = 15 /\ ret.val.pairs = 12

(***************************************************************************)
(* C10: in a batch run over a list of k values, a failure of the test for  *)
(* one k (a primorial exceeding maxN) aborts only that k's test: the run   *)
(* continues and the rows of the other k values are still produced.        *)
(* Stated for lists of k >= 1, where the maxN limit is the only failure.   *)
(***************************************************************************)
TestFails(j) ==
    \/ ExceedsMaxN(PrimorialAt(j))
    \/ sieve_is_prime(PrimorialAt(j)).tag = "raise"

RowOf(j) ==
    LET M == PrimorialAt(j)
    IN  <<k_values[j], M, Cardinality({q \in PrimesRef(2, M \div 2) : IsPrimeRef(M - q)})>>

C10_OtherRowsStillProduced ==
    (fn = "compute_table" /\ pc \in {"return", "raise"}
        /\ \A j \in DOMAIN k_values : k_values[j] >= 1) =>
        \A j \in DOMAIN k_values :
            ~TestFails(j) =>
                /\ ret.tag = "return"
                /\ \E r \in DOMAIN ret.val : ret.val[r] = RowOf(j)

(***************************************************************************)
(* C10, amended: in a batch run over a list of k values, a failure of the  *)
(* test for one k aborts the whole run: the exception leaves               *)
(* compute_table at the first failing k, no rows are returned (those       *)
(* already computed for earlier k values are lost) and the remaining k     *)
(* values are not processed; rows are returned, one per k in order, only   *)
(* when no k fails.                                                        *)
(***************************************************************************)
C10_FailureAbortsWholeBatch ==
    fn = "compute_table" =>
        /\ pc = "raise" =>
              /\ ret.tag = "raise"
              /\ pos \in DOMAIN k_values /\ TestFails(pos)
              /\ \A j \in 1..(pos - 1) : ~TestFails(j)
              /\ Len(rows) = pos - 1
        /\ pc = "return" =>
              /\ \A j \in DOMAIN k_values : ~TestFails(j)
              /\ ret = Return("compute_table", [j \in DOMAIN k_values |-> RowOf(j)])
        /\ pc = "loop" =>
              /\ \A j \in 1..(pos - 1) : ~TestFails(j)
              /\ rows = [j \in 1..(pos - 1) |-> RowOf(j)]

C10_Witness ==
    /\ fn = "compute_table" /\ pc = "raise" /\ ret = Raise("ValueError")
    /\ Len(k_values) = 2 /\ pos = 1 /\ ~TestFails(2)
(***************************************************************************)
(* C11: a negative primorial index k passed to compute_table is rejected   *)
(* immediately with an InvalidInput error: no row (k, N, G(N)) is ever     *)
(* computed or returned for a negative k, whatever other k values are in   *)
(* the list.                                                               *)
(***************************************************************************)
C11_NegativeKRejected ==
    (fn = "compute_table" /\ \E j \in DOMAIN k_values : k_values[j] < 0) =>
        /\ \A r \in DOMAIN rows : rows[r][1] >= 0
        /\ pc \in {"return", "raise"} => ret.tag = "raise"
(***************************************************************************)
(* C12: in sampling mode with max_primes >= 1, the values p tested are     *)
(* exactly the primes of [p_start, p_end] in strictly increasing order,    *)
(* each once, from the smallest prime >= p_start, stopping after           *)
(* max_primes of them or at the last prime <= p_end: tested =              *)
(* min(max_primes, number of primes in [p_start, p_end]) and count is the  *)
(* number of those tested p for which N - p is a positive prime.           *)
(***************************************************************************)
\* the m smallest primes of lo..hi (all of them when there are fewer)
FirstPrimesOf(lo, hi, m) ==
    {q \in PrimesRef(lo, hi) : Cardinality(PrimesRef(lo, q)) <= m}

RepresentationsAmong(S) ==
    Cardinality({q \in S : N - q > 0 /\ IsPrimeRef(N - q)})

C12_Sampling ==
    fn = "count_goldbach_representations" /\ max_primes # None /\ max_primes.val >= 1

C12_TestedArePrimesInOrder ==
    /\ [](C12_Sampling /\ pc = "loop" =>
            \* the primes below p are the ones tested so far, the cap not reached
            /\ p >= p_start
            /\ tested = Cardinality(PrimesRef(p_start, p - 1))
            /\ tested < max_primes.val
            /\ PrimesRef(p_start, p - 1) \subseteq PrimesRef(p_start, p_end)
            /\ count = RepresentationsAmong(PrimesRef(p_start, p - 1)))
    /\ [](C12_Sampling /\ pc = "return" =>
            LET inRange == PrimesRef(p_start, p_end)
                cap     == max_primes.val
                done    == FirstPrimesOf(p_start, p_end, cap)
            IN  /\ tested = IF cap < Cardinality(inRange) THEN cap
                            ELSE Cardinality(inRange)
                /\ tested = Cardinality(done)
                /\ count = RepresentationsAmong(done)
                /\ ret = Return("count_goldbach_representations", <<count, tested>>))
    /\ [][(C12_Sampling /\ pc = "loop" /\ tested' # tested) =>
            \* the p tested in a step is the smallest prime not yet tested
            /\ tested' = tested + 1
            /\ p = Min(PrimesRef(p_start, p_end) \ PrimesRef(p_start, p - 1))
            /\ pc' = "return" \/ (p' > p /\ PrimesRef(p + 1, p' - 1) = {})]_vars

C12_Witness ==
    /\ fn = "count_goldbach_representations" /\ pc = "return"
    /\ max_primes = PyInt(2) /\ tested = 2 /\ count = 1
    /\ Cardinality(PrimesRef(p_start, p_end)) > 2
    /\ ~IsPrimeRef(p_start)
(***************************************************************************)
(* C13: for every k >= 1 the bound-doubling loop of first_k_primes         *)
(* terminates: the sieve bound is positive and strictly grows on every     *)
(* iteration in which fewer than k primes were found, so a bound holding   *)
(* at least k primes is reached and the function returns.                  *)
(***************************************************************************)
InFirstKLoop == fn = "first_k_primes" /\ pc = "loop"

C13_FirstKLoopTerminates ==
    /\ [](InFirstKLoop => (k >= 1 /\ bound > 0))
    /\ [][(InFirstKLoop /\ pc' = "loop") => bound' > bound]_vars
    /\ [][(InFirstKLoop /\ pc' = "return") =>
             /\ Cardinality(PrimesRef(2, bound)) >= k
             /\ Len(ret'.val) = k]_vars
    /\ InFirstKLoop ~> (fn = "first_k_primes" /\ pc = "return")

C13_Witness ==
    /\ fn = "first_k_primes" /\ pc = "return" /\ k = 7
    /\ bound = 28 /\ Len(ret.val) = 7 /\ ret.val[7] = 17
(***************************************************************************)
(* C14: for every k >= 3 and every prime q <= p_k (every prime dividing    *)
(* N = primorial(k)), the left and right frequency tables of               *)
(* verify_lpf_symmetry agree: #{x in [3, N/2) : lpf(x) = q} =              *)
(* #{x in [3, N/2) : lpf(N - x) = q}; indeed lpf(x) = q iff lpf(N - x) = q *)
(* for each scanned x.                                                     *)
(***************************************************************************)
\* counts.get(q, 0)
CountOf(counts, q) == IF PyInt(q) \in DOMAIN counts THEN counts[PyInt(q)] ELSE 0

C14_TablesAgreeOnPrimeDivisors ==
    fn = "verify_lpf_symmetry" =>
        \A q \in PrimesRef(2, prime(k)) :
            /\ N % q = 0
            /\ \A j \in DOMAIN left_lpfs :
                  (left_lpfs[j] = PyInt(q)) <=> (right_lpfs[j] = PyInt(q))
            /\ pc = "return" =>
                  /\ CountOf(ret.val.left_counts, q) = CountOf(ret.val.right_counts, q)
                  /\ CountOf(ret.val.left_counts, q)
                        = Cardinality({a \in 3..(N \div 2 - 1) :
                                          a % q = 0 /\ \A r \in PrimesRef(2, q - 1) : a % r # 0})
                  /\ CountOf(ret.val.right_counts, q)
                        = Cardinality({a \in 3..(N \div 2 - 1) :
                                          (N - a) % q = 0
                                          /\ \A r \in PrimesRef(2, q - 1) : (N - a) % r # 0})

C14_Witness ==
    /\ fn = "verify_lpf_symmetry" /\ pc = "return" /\ k = 3
    /\ CountOf(ret.val.left_counts, 3) = 2 /\ CountOf(ret.val.right_counts, 3) = 2
    /\ CountOf(ret.val.left_counts, 5) = 1 /\ CountOf(ret.val.right_counts, 5) = 1
    /\ CountOf(ret.val.left_counts, 7) = 1 /\ CountOf(ret.val.right_counts, 7) = 0
====
